---- MODULE Spec2Model ----
(***************************************************************************)
(* FitterStepAlign (scaffoldfitter/fitterstepalign.py): the step's stored  *)
(* settings and their setters, the settings record, the marker matching of *)
(* _doAlignMarkers, the fit of _optimiseAlignment and the pipeline of      *)
(* run().                                                                  *)
(*                                                                         *)
(* Reals are modelled by integers: angles count quarter turns, so that the *)
(* Euler rotation matrix has integer entries; products and sums are exact. *)
(* A Python float is a record [float |-> TRUE, v |-> n], an int is         *)
(* [float |-> FALSE, v |-> n]; Python compares the two by v.  A Python str *)
(* is a sequence of one-character strings.  A dict is the sequence of its  *)
(* entries in insertion order.                                             *)
(***************************************************************************)
EXTENDS Integers, Sequences, FiniteSets, TLC

VARIABLES
    _alignMarkers,    \* self._alignMarkers
    _rotation,        \* self._rotation
    _scale,           \* self._scale
    _translation,     \* self._translation
    _hasRun,          \* FitterStep._hasRun, set by setHasRun
    ret,              \* the last setter call: its argument, the value it found, its result
    settings,         \* the dict last returned by encodeSettingsJSONDict
    pc,               \* position of the caller inside run()
    error,            \* the assertion that ended run(), "" when none did
    events,           \* the collaborator calls run() has made so far, in order
    pre,              \* the stored settings at entry to run()
    modelCoordinates, \* run(): components of the model coordinates field, 0 when there is none
    modelMarkers,     \* _doAlignMarkers: names of modelMarkers, in dict order
    dataMarkers,      \* _doAlignMarkers: names of dataMarkers, in dict order
    dataMarkers0,     \* dataMarkers as getNodeNameCentres returned it
    diagnosticLevel,  \* self.getDiagnosticLevel()
    markerMap,        \* _doAlignMarkers: markerMap, entries in insertion order
    dataScale,        \* _optimiseAlignment: dataScale
    solution,         \* values of the rotation, scale, translation fields after optimise()
    solveCount,       \* calls of optimisation.optimise() in this run()
    assigned          \* arguments of the createFieldsTransformations call whose result was assigned

vars == <<_alignMarkers, _rotation, _scale, _translation, _hasRun, ret, settings,
          pc, error, events, pre, modelCoordinates, modelMarkers, dataMarkers, dataMarkers0,
          diagnosticLevel, markerMap, dataScale, solution, solveCount, assigned>>

stepVars == <<_alignMarkers, _rotation, _scale, _translation>>
matchVars == <<modelMarkers, dataMarkers, dataMarkers0, diagnosticLevel>>
fitVars == <<dataScale, solution, solveCount>>
runVars == <<pre, modelCoordinates>>

(***************************************************************************)
(* Bounds of the model.                                                    *)
(***************************************************************************)
MaxMarkers == 3
MaxDiagnosticLevel == 1
MaxDataScale == 2
MaxScale == 2

\* an optional value is the empty sequence or the sequence of the one value
None == <<>>
Some(x) == <<x>>

(***************************************************************************)
(* Values.                                                                 *)
(***************************************************************************)
Float(n) == [float |-> TRUE, v |-> n]
PyInt(n) == [float |-> FALSE, v |-> n]

RotationValues == { <<0, 0, 0>>, <<1, 0, 0>> }
TranslationValues == { <<0, 0, 0>>, <<1, 0, -1>> }
FloatScales == { Float(n) : n \in -1 .. MaxScale }
ScaleValues == FloatScales \cup { PyInt(1) }
DataScales == 1 .. MaxDataScale
DiagnosticLevels == 0 .. MaxDiagnosticLevel
\* a list of the wrong length, for the setters' assertions
ShortList == <<0, 0>>

\* Python's == on two numbers: 1 == 1.0
NumEq(a, b) == a.v = b.v

Call(op, arg, stored, sameObject, result) ==
    [op |-> op, arg |-> arg, stored |-> stored, sameObject |-> sameObject,
     result |-> result]
NoCall == Call("", "", "", FALSE, "")
\* a returned bool
Bool(b) == IF b THEN "True" ELSE "False"

(***************************************************************************)
(* __init__                                                                *)
(***************************************************************************)
InitStep ==
    /\ _alignMarkers = FALSE
    /\ _rotation = <<0, 0, 0>>
    /\ _scale = Float(1)
    /\ _translation = <<0, 0, 0>>

InitRest ==
    /\ _hasRun = FALSE
    /\ ret = NoCall
    /\ settings = None
    /\ pc = "idle"
    /\ error = ""
    /\ events = <<>>
    /\ pre = None
    /\ modelCoordinates = 0
    /\ markerMap = <<>>
    /\ dataScale = 0
    /\ solution = None
    /\ solveCount = 0
    /\ assigned = None

NoMarkers ==
    /\ modelMarkers = <<>>
    /\ dataMarkers = <<>>
    /\ dataMarkers0 = <<>>
    /\ diagnosticLevel = 0

Init == InitStep /\ InitRest /\ NoMarkers

(***************************************************************************)
(* Settings record.                                                        *)
(***************************************************************************)
_jsonTypeId == "_FitterStepAlign"

\* the four settings of the step
Self ==
    [ alignMarkers |-> _alignMarkers,
      rotation |-> _rotation,
      scale |-> _scale,
      translation |-> _translation ]

\* the dict a step holding the settings self encodes
encodeSettingsJSONDict(self) ==
    (_jsonTypeId :> TRUE) @@
    [ alignMarkers |-> self.alignMarkers,
      rotation |-> self.rotation,
      scale |-> self.scale,
      translation |-> self.translation ]

\* a mutation: the scale of the record is dropped
decodeSettingsJSONDictNoScale(dct) ==
    [ alignMarkers |-> dct["alignMarkers"],
      rotation |-> dct["rotation"],
      scale |-> Float(1),
      translation |-> dct["translation"] ]

\* the four settings decodeSettingsJSONDict stores
decodeSettingsJSONDict(dct) ==
    [ alignMarkers |-> dct["alignMarkers"],
      rotation |-> dct["rotation"],
      scale |-> dct["scale"],
      translation |-> dct["translation"] ]

\* dicts handed to decodeSettingsJSONDict by a caller; the last lacks the type id
RecordInputs ==
    { encodeSettingsJSONDict([ alignMarkers |-> TRUE, rotation |-> r, scale |-> s,
                               translation |-> <<1, 0, -1>> ]) :
        r \in RotationValues, s \in { Float(0), Float(2) } }
    \cup { [ alignMarkers |-> TRUE, rotation |-> <<1, 0, 0>>, scale |-> Float(2),
             translation |-> <<1, 0, -1>> ] }

Idle == pc = "idle"

EncodeSettings ==
    /\ Idle
    /\ settings' = Some(encodeSettingsJSONDict(Self))
    /\ ret' = NoCall
    /\ UNCHANGED <<stepVars, _hasRun, pc, error, events, runVars, matchVars, markerMap,
                   fitVars, assigned>>

DecodeSettings ==
    /\ Idle
    /\ \E dct \in RecordInputs \cup { settings[i] : i \in DOMAIN settings } :
          IF _jsonTypeId \in DOMAIN dct
          THEN LET f == decodeSettingsJSONDict(dct)
               IN /\ _alignMarkers' = f.alignMarkers
                  /\ _rotation' = f.rotation
                  /\ _scale' = f.scale
                  /\ _translation' = f.translation
                  /\ ret' = Call("decodeSettingsJSONDict", dct, "", FALSE, "None")
          ELSE \* assert self._jsonTypeId in dct
               /\ ret' = Call("decodeSettingsJSONDict", dct, "", FALSE, "AssertionError")
               /\ UNCHANGED stepVars
    /\ UNCHANGED <<_hasRun, settings, pc, error, events, runVars, matchVars, markerMap,
                   fitVars, assigned>>

(***************************************************************************)
(* Setters.  The argument of a list setter is either a list object of the  *)
(* caller (sameObject = FALSE) or the very list the step stores, which     *)
(* getRotation / getTranslation hand out (sameObject = TRUE).              *)
(***************************************************************************)
\* a mutation: comparison by identity
Differs_byIdentity(arg, stored, sameObject) == ~sameObject

\* arg != stored, on two lists or two bools
Differs(arg, stored, sameObject) == arg # stored

setAlignMarkers ==
    /\ Idle
    /\ \E alignMarkers \in BOOLEAN :
          /\ IF Differs(alignMarkers, _alignMarkers, FALSE)
             THEN _alignMarkers' = alignMarkers
             ELSE UNCHANGED _alignMarkers
          /\ ret' = Call("setAlignMarkers", alignMarkers, _alignMarkers, FALSE,
                               Bool(Differs(alignMarkers, _alignMarkers, FALSE)))
    /\ UNCHANGED <<_rotation, _scale, _translation, _hasRun, settings, pc, error,
                   events, runVars, matchVars, markerMap, fitVars, assigned>>

setRotation ==
    /\ Idle
    /\ \E rotation \in RotationValues \cup {ShortList}, sameObject \in BOOLEAN :
          /\ sameObject => rotation = _rotation
          /\ IF Len(rotation) # 3
             THEN \* assert len(rotation) == 3
                  /\ ret' = Call("setRotation", rotation, _rotation, sameObject,
                                       "AssertionError")
                  /\ UNCHANGED _rotation
             ELSE /\ IF Differs(rotation, _rotation, sameObject)
                     THEN _rotation' = rotation
                     ELSE UNCHANGED _rotation
                  /\ ret' = Call("setRotation", rotation, _rotation, sameObject,
                                       Bool(Differs(rotation, _rotation, sameObject)))
    /\ UNCHANGED <<_alignMarkers, _scale, _translation, _hasRun, settings, pc, error,
                   events, runVars, matchVars, markerMap, fitVars, assigned>>

setScale ==
    /\ Idle
    /\ \E scale \in ScaleValues :
          /\ IF ~NumEq(scale, _scale)
             THEN _scale' = scale
             ELSE UNCHANGED _scale
          /\ ret' = Call("setScale", scale, _scale, FALSE, Bool(~NumEq(scale, _scale)))
    /\ UNCHANGED <<_alignMarkers, _rotation, _translation, _hasRun, settings, pc,
                   error, events, runVars, matchVars, markerMap, fitVars, assigned>>

setTranslation ==
    /\ Idle
    /\ \E translation \in TranslationValues \cup {ShortList}, sameObject \in BOOLEAN :
          /\ sameObject => translation = _translation
          /\ IF Len(translation) # 3
             THEN \* assert len(translation) == 3
                  /\ ret' = Call("setTranslation", translation, _translation,
                                       sameObject, "AssertionError")
                  /\ UNCHANGED _translation
             ELSE /\ IF Differs(translation, _translation, sameObject)
                     THEN _translation' = translation
                     ELSE UNCHANGED _translation
                  /\ ret' = Call("setTranslation", translation, _translation,
                                       sameObject,
                                       Bool(Differs(translation, _translation, sameObject)))
    /\ UNCHANGED <<_alignMarkers, _rotation, _scale, _hasRun, settings, pc, error,
                   events, runVars, matchVars, markerMap, fitVars, assigned>>

Setters == setAlignMarkers \/ setRotation \/ setScale \/ setTranslation

(***************************************************************************)
(* Marker matching of _doAlignMarkers.                                     *)
(*                                                                         *)
(* getNodeNameCentres returns a dict name -> centre.  The model keeps the  *)
(* names in dict order; the centre of a marker is a fixed function of its  *)
(* name, one for the model and one for the data.                           *)
(***************************************************************************)
MarkerNames ==
    { <<"A">>, <<" ", "a", " ">>, <<"b">>, <<"C">> }

NameIndex(name) ==
    CASE name = <<"A">> -> 1
      [] name = <<" ", "a", " ">> -> 2
      [] name = <<"b">> -> 3
      [] OTHER -> 4

\* modelMarkers[name] and dataMarkers[name]
ModelCentre(name) == <<NameIndex(name), 0, 0>>
DataCentre(name) == <<0, NameIndex(name), 1>>

\* the key orders a dict of at most MaxMarkers markers can have
MarkerDicts ==
    UNION { { d \in [1 .. n -> MarkerNames] :
                \A i, j \in 1 .. n : d[i] = d[j] => i = j } : n \in 0 .. MaxMarkers }

IsSpace(c) == c = " "

\* str.strip()
RECURSIVE lstrip(_)
lstrip(s) == IF s # <<>> /\ IsSpace(Head(s)) THEN lstrip(Tail(s)) ELSE s
RECURSIVE rstrip(_)
rstrip(s) == IF s # <<>> /\ IsSpace(s[Len(s)]) THEN rstrip(SubSeq(s, 1, Len(s) - 1)) ELSE s
strip(s) == rstrip(lstrip(s))

\* str.casefold(), on the letters marker names are made of
casefoldChar(c) ==
    CASE c = "A" -> "a"
      [] c = "B" -> "b"
      [] c = "C" -> "c"
      [] OTHER -> c
casefold(s) == [i \in 1 .. Len(s) |-> casefoldChar(s[i])]

\* name.strip().casefold()
matchNameOf(name) == casefold(strip(name))

\* dict.pop(key) on the key order
Pop(keys, i) == SubSeq(keys, 1, i - 1) \o SubSeq(keys, i + 1, Len(keys))

\* for dataName in dataMarkers: if dataName.strip().casefold() == matchName: ... break
\* the position of the data marker the inner loop stops at; 0 when it runs to its end
RECURSIVE FirstMatch(_, _, _)
FirstMatch(matchName, data, i) ==
    IF i > Len(data) THEN 0
    ELSE IF matchNameOf(data[i]) = matchName THEN i
    ELSE FirstMatch(matchName, data, i + 1)

\* one entry of markerMap; dataName is not stored by the code, it records which
\* data marker the data centre was read from
MapEntry(modelName, dataName) ==
    [ name |-> modelName, modelx |-> ModelCentre(modelName),
      datax |-> DataCentre(dataName), dataName |-> dataName ]

\* for modelName in modelMarkers: the loop from model marker k on
RECURSIVE MatchLoop(_, _, _, _, _)
MatchLoop(model, k, data, map, writeDiagnostics) ==
    IF k > Len(model) THEN [ markerMap |-> map, dataMarkers |-> data ]
    ELSE LET modelName == model[k]
             i == FirstMatch(matchNameOf(modelName), data, 1)
         IN IF i = 0
            THEN MatchLoop(model, k + 1, data, map, writeDiagnostics)
            ELSE MatchLoop(model, k + 1,
                           IF writeDiagnostics THEN Pop(data, i) ELSE data,
                           Append(map, MapEntry(modelName, data[i])),
                           writeDiagnostics)

\* markerMap and what is left of dataMarkers when the matching is over
MatchMarkers(model, data, level) == MatchLoop(model, 1, data, <<>>, level > 0)

(***************************************************************************)
(* The matching alone, on every pair of marker dicts and every diagnostic  *)
(* level.                                                                  *)
(***************************************************************************)
InitMatch ==
    /\ InitStep /\ InitRest
    /\ modelMarkers \in MarkerDicts
    /\ dataMarkers0 \in MarkerDicts
    /\ dataMarkers = dataMarkers0
    /\ diagnosticLevel \in DiagnosticLevels

Match ==
    /\ pc = "idle"
    /\ LET m == MatchMarkers(modelMarkers, dataMarkers, diagnosticLevel)
       IN /\ markerMap' = m.markerMap
          /\ dataMarkers' = m.dataMarkers
    /\ pc' = "optimise"
    /\ UNCHANGED <<stepVars, _hasRun, ret, settings, error, events, runVars, modelMarkers,
                   dataMarkers0, diagnosticLevel, fitVars, assigned>>

NextMatch == Match

SpecMatch == InitMatch /\ [][NextMatch]_vars

Matched == pc = "optimise"

\* C1: each data marker is used in at most one matched pair, at every
\* diagnostic level.
C1_DataMarkerUsedOnce ==
    Matched =>
        \A i, j \in 1 .. Len(markerMap) :
            markerMap[i].dataName = markerMap[j].dataName => i = j

\* C2: the correspondence map is the one the matching builds at every other
\* diagnostic level.
C2_MapIndependentOfDiagnostics ==
    Matched =>
        \A level \in DiagnosticLevels :
            MatchMarkers(modelMarkers, dataMarkers0, level).markerMap = markerMap

\* the data markers not paired with any of the first k - 1 model markers
Unconsumed(k) ==
    { i \in 1 .. Len(dataMarkers0) :
        \A e \in 1 .. Len(markerMap) :
            markerMap[e].dataName = dataMarkers0[i]
                => \A j \in 1 .. k - 1 : modelMarkers[j] # markerMap[e].name }

\* among them, those with the normalised name of model marker k
Candidates(k) ==
    { i \in Unconsumed(k) :
        matchNameOf(dataMarkers0[i]) = matchNameOf(modelMarkers[k]) }

Minimum(S) == CHOOSE i \in S : \A j \in S : i <= j

\* C6: a model marker is in the correspondence exactly when a data marker
\* still under consideration (not paired with an earlier model marker) has its
\* normalised name, and it is paired with the first such data marker.
C6_FirstUnconsumedMatch ==
    Matched =>
        \A k \in 1 .. Len(modelMarkers) :
            LET entries == { e \in 1 .. Len(markerMap) :
                               markerMap[e].name = modelMarkers[k] }
            IN /\ (entries # {}) <=> (Candidates(k) # {})
               /\ \A e \in entries :
                     /\ Candidates(k) # {}
                     /\ markerMap[e].dataName = dataMarkers0[Minimum(Candidates(k))]
                     /\ markerMap[e].datax = DataCentre(markerMap[e].dataName)


(***************************************************************************)
(* createFieldsTransformations.                                            *)
(***************************************************************************)
\* cosine and sine of k quarter turns
cosQ(k) == CASE k % 4 = 0 -> 1 [] k % 4 = 2 -> -1 [] OTHER -> 0
sinQ(k) == CASE k % 4 = 1 -> 1 [] k % 4 = 3 -> -1 [] OTHER -> 0

\* create_field_euler_angles_rotation_matrix: azimuth about z, elevation about
\* the rotated y, roll about the rotated x; the rows of the matrix
rotation_matrix(angles) ==
    LET ca == cosQ(angles[1])  sa == sinQ(angles[1])
        ce == cosQ(angles[2])  se == sinQ(angles[2])
        cr == cosQ(angles[3])  sr == sinQ(angles[3])
    IN << << ca * ce, ca * se * sr - sa * cr, ca * se * cr + sa * sr >>,
          << sa * ce, sa * se * sr + ca * cr, sa * se * cr - ca * sr >>,
          << -se, ce * sr, ce * cr >> >>

\* createFieldMatrixMultiply(components_count, rotation_matrix, coordinates)
rotated_coordinates(angles, x) ==
    LET m == rotation_matrix(angles)
    IN [ i \in 1 .. 3 |-> m[i][1] * x[1] + m[i][2] * x[2] + m[i][3] * x[3] ]

\* a mutation: a zero or negative scale is rejected
ValidArguments_positiveScale(components_count, rotation_angles, scale_value, translation_offsets) ==
    /\ components_count = 3
    /\ Len(rotation_angles) = components_count
    /\ scale_value.float /\ scale_value.v > 0
    /\ Len(translation_offsets) = components_count

\* the assertion of createFieldsTransformations
ValidArguments(components_count, rotation_angles, scale_value, translation_offsets) ==
    /\ components_count = 3
    /\ Len(rotation_angles) = components_count
    /\ scale_value.float
    /\ Len(translation_offsets) = components_count

\* translation if translation_scale_factor == 1.0 else translation*[factor]*3
translation_term(translation_offsets, translation_scale_factor) ==
    IF translation_scale_factor = 1
    THEN translation_offsets
    ELSE [ i \in 1 .. 3 |-> translation_offsets[i] * translation_scale_factor ]

\* the value of transformed_coordinates where coordinates has the value x
transformed_coordinates(x, rotation_angles, scale_value, translation_offsets, translation_scale_factor) ==
    LET rx == rotated_coordinates(rotation_angles, x)
        tr == translation_term(translation_offsets, translation_scale_factor)
    IN [ i \in 1 .. 3 |-> rx[i] * scale_value.v + tr[i] ]

(***************************************************************************)
(* run(), _doAlignMarkers and _optimiseAlignment.  run() is synchronous:   *)
(* while it is under way no setter is called.  Its collaborators (the      *)
(* fitter, Zinc's field assignment and optimisation) answer what they      *)
(* like; every answer is an input of the step that asks.                   *)
(***************************************************************************)
MinMarkers == 3
Results == { "RESULT_OK", "RESULT_ERROR" }
AssignResults == { "RESULT_OK", "RESULT_WARNING_PART_DONE", "RESULT_ERROR" }
\* getModelCoordinatesField(): no field, a field of 2 or of 3 components
ComponentCounts == { 0, 2, 3 }

Fail(message) ==
    /\ pc' = "failed"
    /\ error' = message

\* a mutation: two markers are enough
EnoughMarkers_two(map) == Len(map) >= 2

\* len(markerMap) >= 3
EnoughMarkers(map) == Len(map) >= MinMarkers

\* a mutation: the translation read from the field is stored as it is
rescaleTranslation_none(translation, scale_factor) == translation

\* [ s*dataScale for s in self._translation ]
rescaleTranslation(translation, scale_factor) ==
    [ i \in 1 .. Len(translation) |-> translation[i] * scale_factor ]

\* a mutation: the model is transformed before the markers are aligned
afterModelCoordinates_transformFirst(alignMarkers) == "transform"

\* if self._alignMarkers: self._doAlignMarkers()
afterModelCoordinates(alignMarkers) ==
    IF alignMarkers THEN "doAlignMarkers" ELSE "transform"

RunBegin ==
    /\ pc = "idle"
    /\ pre' = Some([ settings |-> Self, hasRun |-> _hasRun ])
    /\ ret' = NoCall
    /\ \E components_count \in ComponentCounts :
          /\ modelCoordinates' = components_count
          /\ IF components_count # 0
             THEN /\ pc' = afterModelCoordinates(_alignMarkers)
                  /\ UNCHANGED error
             ELSE Fail("Align:  Missing model coordinates")
    /\ UNCHANGED <<stepVars, _hasRun, settings, events, matchVars, markerMap, fitVars,
                   assigned>>

\* lines 170-205; the call of _optimiseAlignment is the next step
DoAlignMarkers ==
    /\ pc = "doAlignMarkers"
    /\ \E markerGroup \in BOOLEAN, markerFields \in BOOLEAN :
          IF ~markerGroup
          THEN /\ Fail("Align:  No marker group to align with")
               /\ UNCHANGED <<markerMap, events>>
          ELSE IF ~markerFields
          THEN /\ Fail("Align:  No marker group, coordinates or name fields")
               /\ UNCHANGED <<markerMap, events>>
          ELSE \E model \in MarkerDicts, data \in MarkerDicts,
                  level \in DiagnosticLevels :
                  /\ markerMap' = MatchMarkers(model, data, level).markerMap
                  /\ events' = Append(events, "match")
                  /\ pc' = "optimise"
                  /\ UNCHANGED error
    /\ UNCHANGED <<stepVars, _hasRun, ret, settings, runVars, matchVars, fitVars, assigned>>

\* lines 214-241: the marker count, the fit region and the objective.
\* markerMap is not read after line 234.
OptimiseSetUp ==
    /\ pc = "optimise"
    /\ IF ~EnoughMarkers(markerMap)
       THEN /\ Fail("Align:  Only n markers - need at least 3")
            /\ UNCHANGED <<markerMap, dataScale, events>>
       ELSE \E scale_factor \in DataScales, assigned_ok \in BOOLEAN,
               objective_valid \in BOOLEAN :
               /\ dataScale' = scale_factor
               /\ markerMap' = <<>>
               /\ IF ~assigned_ok
                  THEN /\ Fail("Align:  Failed to set up data for alignment to markers optimisation")
                       /\ UNCHANGED events
                  ELSE IF ~objective_valid
                  THEN /\ Fail("Align:  Failed to set up objective function for alignment to markers optimisation")
                       /\ UNCHANGED events
                  ELSE /\ events' = Append(events, "objective")
                       /\ pc' = "solve"
                       /\ UNCHANGED error
    /\ UNCHANGED <<stepVars, _hasRun, ret, settings, runVars, matchVars, solution,
                   solveCount, assigned>>

\* lines 245-290: optimise() leaves values in the three independent fields
Optimise ==
    /\ pc = "solve"
    /\ \E result \in Results, r \in RotationValues, s \in FloatScales,
          t \in TranslationValues :
          /\ solution' = Some([ rotation |-> r, scale |-> s, translation |-> t ])
          /\ solveCount' = solveCount + 1
          /\ events' = Append(events, "solve")
          /\ IF result = "RESULT_OK"
             THEN pc' = "extract" /\ UNCHANGED error
             ELSE Fail("Align:  Alignment to markers optimisation failed")
    /\ UNCHANGED <<stepVars, _hasRun, ret, settings, runVars, matchVars, markerMap,
                   dataScale, assigned>>

\* what field.evaluateReal returns with the result: the field's value when the
\* result is RESULT_OK, and some value of the field's type when it is not
Evaluated(result, value, values) == IF result = "RESULT_OK" THEN {value} ELSE values

\* lines 292-297: the three stores come before the assertion on the results
Extract ==
    /\ pc = "extract"
    /\ \E result1 \in Results, result2 \in Results, result3 \in Results :
       \E r \in Evaluated(result1, solution[1].rotation, RotationValues),
          s \in Evaluated(result2, solution[1].scale, FloatScales),
          t \in Evaluated(result3, solution[1].translation, TranslationValues) :
          /\ _rotation' = r
          /\ _scale' = s
          /\ _translation' = rescaleTranslation(t, dataScale)
          /\ events' = Append(events, "extract")
          /\ IF result1 = "RESULT_OK" /\ result2 = "RESULT_OK" /\ result3 = "RESULT_OK"
             THEN pc' = "transform" /\ UNCHANGED error
             ELSE Fail("Align:  Failed to evaluate transformation for alignment to markers")
    /\ UNCHANGED <<_alignMarkers, _hasRun, ret, settings, runVars, matchVars, markerMap,
                   fitVars, assigned>>

\* lines 155-159: the transformation of the stored settings, factor 1.0, is
\* assigned to the model coordinate field
AssignTransformed ==
    /\ pc = "transform"
    /\ \E result \in AssignResults :
          IF ~ValidArguments(modelCoordinates, _rotation, _scale, _translation)
          THEN /\ Fail("createFieldsTransformations.  Invalid arguments")
               /\ UNCHANGED <<assigned, events>>
          ELSE /\ assigned' = Some([ rotation |-> _rotation, scale |-> _scale,
                                     translation |-> _translation, factor |-> 1 ])
               /\ events' = Append(events, "assign")
               /\ IF result \in { "RESULT_OK", "RESULT_WARNING_PART_DONE" }
                  THEN pc' = "updateReference" /\ UNCHANGED error
                  ELSE Fail("Align:  Failed to transform model")
    /\ UNCHANGED <<stepVars, _hasRun, ret, settings, runVars, matchVars, markerMap, fitVars>>

\* line 160
UpdateModelReferenceCoordinates ==
    /\ pc = "updateReference"
    /\ events' = Append(events, "updateModelReferenceCoordinates")
    /\ pc' = "project"
    /\ UNCHANGED <<stepVars, _hasRun, ret, settings, error, runVars, matchVars, markerMap,
                   fitVars, assigned>>

\* line 163
CalculateDataProjections ==
    /\ pc = "project"
    /\ events' = Append(events, "calculateDataProjections")
    /\ pc' = "setHasRun"
    /\ UNCHANGED <<stepVars, _hasRun, ret, settings, error, runVars, matchVars, markerMap,
                   fitVars, assigned>>

\* line 164
SetHasRun ==
    /\ pc = "setHasRun"
    /\ _hasRun' = TRUE
    /\ events' = Append(events, "setHasRun")
    /\ pc' = "done"
    /\ UNCHANGED <<stepVars, ret, settings, error, runVars, matchVars, markerMap, fitVars,
                   assigned>>

\* run() returns or raises; its locals are gone
RunReturn ==
    /\ pc \in { "done", "failed" }
    /\ pc' = "idle"
    /\ error' = ""
    /\ events' = <<>>
    /\ pre' = None
    /\ modelCoordinates' = 0
    /\ markerMap' = <<>>
    /\ dataScale' = 0
    /\ solution' = None
    /\ solveCount' = 0
    /\ assigned' = None
    /\ UNCHANGED <<stepVars, _hasRun, ret, settings, matchVars>>

Run ==
    \/ RunBegin \/ DoAlignMarkers \/ OptimiseSetUp \/ Optimise \/ Extract
    \/ AssignTransformed \/ UpdateModelReferenceCoordinates
    \/ CalculateDataProjections \/ SetHasRun \/ RunReturn

(***************************************************************************)
(* The step in its pipeline: settings are set or decoded, and the step is  *)
(* run.                                                                    *)
(***************************************************************************)
Next == Setters \/ DecodeSettings \/ Run

Spec == Init /\ [][Next]_vars


Has(event) == \E i \in 1 .. Len(events) : events[i] = event

TooFewMarkers == "Align:  Only n markers - need at least 3"

\* C3: with auto-align enabled and fewer than 3 matched markers run() fails,
\* the stored rotation, scale and translation are what they were before
\* run(), nothing is assigned to the model, no projection is triggered and
\* the step is not marked as having run.
C3_TooFewMarkersFails ==
    [][ /\ (pc = "optimise" /\ Len(markerMap) < 3)
            => (pc' = "failed" /\ error' = TooFewMarkers)
        /\ (pc' = "failed" /\ error' = TooFewMarkers)
            => /\ pre'[1].settings.alignMarkers
               /\ Self' = pre'[1].settings
               /\ _hasRun' = pre'[1].hasRun
               /\ assigned' = None
               /\ events' = <<"match">>
        /\ (pc = "failed" /\ error = TooFewMarkers)
            => (pc' = "idle" /\ Self' = Self /\ _hasRun' = _hasRun)
      ]_vars

\* run() has failed on two matched markers, with stored settings that are
\* not the defaults
C3_Witness ==
    /\ pc = "failed"
    /\ error = TooFewMarkers
    /\ Len(markerMap) = 2
    /\ _alignMarkers
    /\ _scale = Float(2)
    /\ _translation = <<1, 0, -1>>
    /\ ~_hasRun

\* C7 as claimed: no transformation with a zero or negative scale is ever
\* assigned to the model.
C7_PathologicalScaleRejected ==
    assigned # None => assigned[1].scale.v > 0

InvalidArguments == "createFieldsTransformations.  Invalid arguments"

\* C7 as amended: the only check on the scale is that it is a float. When
\* run() comes to apply the stored settings to a model field of 3 components
\* and the stored scale is a float, zero and negative included, the
\* transformation built with that scale is assigned to the model; otherwise
\* the assertion of createFieldsTransformations fails and nothing is assigned.
C7_OnlyFloatIsChecked ==
    [][ pc = "transform"
          => IF _scale.float /\ modelCoordinates = 3
                /\ Len(_rotation) = 3 /\ Len(_translation) = 3
             THEN /\ assigned' = Some([ rotation |-> _rotation, scale |-> _scale,
                                        translation |-> _translation, factor |-> 1 ])
                  /\ events' = Append(events, "assign")
                  /\ error' # InvalidArguments
             ELSE /\ pc' = "failed"
                  /\ error' = InvalidArguments
                  /\ assigned' = None
                  /\ events' = events
      ]_vars

\* run() has assigned a transformation of scale 0.0 to the model
C7_Witness ==
    /\ pc = "updateReference"
    /\ assigned # None
    /\ assigned[1].scale = Float(0)
    /\ _scale = Float(0)

FitEvents == << "match", "objective", "solve", "extract" >>
ApplyEvents == << "assign", "updateModelReferenceCoordinates",
                  "calculateDataProjections", "setHasRun" >>

\* C8: a successful run() has made its calls in the one order: the fit, when
\* auto-align is enabled, then the assignment of the transformation of the
\* stored settings with factor 1.0, the reference update, the projections,
\* and last the mark that the step has run. A run() that has not come to its
\* end has not marked the step, and without auto-align run() leaves the
\* stored settings alone.
C8_RunOrder ==
    /\ pc = "done"
        => /\ events = (IF _alignMarkers THEN FitEvents ELSE <<>>) \o ApplyEvents
           /\ assigned = Some([ rotation |-> _rotation, scale |-> _scale,
                                translation |-> _translation, factor |-> 1 ])
           /\ _hasRun
    /\ (pc \notin { "idle", "done" })
        => /\ _hasRun = pre[1].hasRun
           /\ ~Has("setHasRun")
    /\ (pc # "idle" /\ ~_alignMarkers)
        => Self = pre[1].settings
    /\ pc # "idle" => _alignMarkers = pre[1].settings.alignMarkers

\* a run() with auto-align has come to its end, on a step that had not run
C8_Witness ==
    /\ pc = "done"
    /\ _alignMarkers
    /\ ~pre[1].hasRun
    /\ Len(events) = 8

OptimiseFailures ==
    { "Align:  Failed to set up data for alignment to markers optimisation",
      "Align:  Failed to set up objective function for alignment to markers optimisation",
      "Align:  Alignment to markers optimisation failed",
      "Align:  Failed to evaluate transformation for alignment to markers" }

\* C9: when _optimiseAlignment fails after the marker count check, the stored
\* rotation, scale and translation are those from before the call, the
\* solver has been invoked at most once and nothing is assigned to the model.
C9_ParametersSetOnlyOnSuccess ==
    (pc = "failed" /\ error \in OptimiseFailures)
        => /\ Self = pre[1].settings
           /\ solveCount <= 1
           /\ assigned = None

TestPoints == { <<0, 0, 0>>, <<1, 0, 0>>, <<0, 1, 0>>, <<0, 0, 1>>, <<1, 2, 3>> }

\* C10: after a successful fit the stored translation is the solver's
\* translation times the data scale, component by component, and the
\* transformation of the stored settings with factor 1.0 maps every point
\* where the transformation of the fit (the solver's values, factor
\* dataScale) maps it; that transformation is the one run() assigns.
C10_ConditioningUndone ==
    (Has("extract") /\ pc # "failed")
        => /\ _rotation = solution[1].rotation
           /\ _scale = solution[1].scale
           /\ _translation = [ i \in 1 .. 3 |-> solution[1].translation[i] * dataScale ]
           /\ \A x \in TestPoints :
                 transformed_coordinates(x, _rotation, _scale, _translation, 1)
                   = transformed_coordinates(x, solution[1].rotation, solution[1].scale,
                                             solution[1].translation, dataScale)
           /\ assigned # None
                 => assigned[1] = [ rotation |-> _rotation, scale |-> _scale,
                                    translation |-> _translation, factor |-> 1 ]

\* a fit with data scale 2 and a translation that is not zero has been applied
C10_Witness ==
    /\ pc = "done"
    /\ Has("extract")
    /\ dataScale = 2
    /\ solution[1].translation = <<1, 0, -1>>
    /\ solution[1].rotation = <<1, 0, 0>>
    /\ _translation = <<2, 0, -2>>

\* the same with data scale 1.0, where the fit adds the translation unscaled
C10_WitnessUnit ==
    /\ pc = "done"
    /\ Has("extract")
    /\ dataScale = 1
    /\ _translation = <<1, 0, -1>>


(***************************************************************************)
(* The settings interface alone: setters, encode, decode.                  *)
(***************************************************************************)
NextSettings == Setters \/ EncodeSettings \/ DecodeSettings

SpecSettings == Init /\ [][NextSettings]_vars

\* C4: each setter returns True exactly when its argument differs by value
\* from the value stored before the call (element-wise for the lists, whether
\* or not the argument is the stored list object), and after the call the
\* stored value equals the argument.
C4_SettersReportChange ==
    [][ /\ (ret'.op = "setAlignMarkers")
            => /\ (ret'.result = "True") <=> (ret'.arg # _alignMarkers)
               /\ (ret'.result = "False") <=> (ret'.arg = _alignMarkers)
               /\ _alignMarkers' = ret'.arg
        /\ (ret'.op = "setRotation" /\ Len(ret'.arg) = 3)
            => /\ (ret'.result = "True") <=> (ret'.arg # _rotation)
               /\ (ret'.result = "False") <=> (ret'.arg = _rotation)
               /\ _rotation' = ret'.arg
        /\ (ret'.op = "setScale")
            => /\ (ret'.result = "True") <=> (ret'.arg.v # _scale.v)
               /\ (ret'.result = "False") <=> (ret'.arg.v = _scale.v)
               /\ _scale'.v = ret'.arg.v
        /\ (ret'.op = "setTranslation" /\ Len(ret'.arg) = 3)
            => /\ (ret'.result = "True") <=> (ret'.arg # _translation)
               /\ (ret'.result = "False") <=> (ret'.arg = _translation)
               /\ _translation' = ret'.arg
      ]_vars

\* setRotation was given a list equal to the stored one but another object,
\* and answered False
C4_Witness ==
    /\ ret.op = "setRotation"
    /\ ~ret.sameObject
    /\ ret.arg = <<1, 0, 0>>
    /\ ret.stored = <<1, 0, 0>>
    /\ ret.result = "False"
    /\ _rotation = <<1, 0, 0>>

\* C5: decoding the dict a step encodes into another step gives that step the
\* same four settings, and encoding that step gives the same dict again.
C5_SettingsRoundTrip ==
    LET dct == encodeSettingsJSONDict(Self)
        other == decodeSettingsJSONDict(dct)
    IN /\ other = Self
       /\ encodeSettingsJSONDict(other) = dct
       /\ DOMAIN dct = { _jsonTypeId, "alignMarkers", "rotation", "scale", "translation" }

\* a step with no default setting left has decoded the dict it encoded before
C5_Witness ==
    /\ ret.op = "decodeSettingsJSONDict"
    /\ ret.result = "None"
    /\ settings # None
    /\ ret.arg = settings[1]
    /\ Self = [ alignMarkers |-> TRUE, rotation |-> <<1, 0, 0>>, scale |-> Float(2),
                translation |-> <<1, 0, -1>> ]
    /\ encodeSettingsJSONDict(Self) = settings[1]

====
